---- MODULE Spec2Model ----
(***************************************************************************)
(* Drone deconfliction engine: DroneTrajectory (construction, linear       *)
(* interpolation, sampling), detect_spatial_conflicts and merge_conflicts. *)
(*                                                                         *)
(* Python floats are modelled as binary floating-point numbers with Prec   *)
(* significant bits and a smallest quantum of 2^-FracBits, rounded to      *)
(* nearest, ties to even, after every operation (IEEE-754 with p = Prec    *)
(* instead of 53).  A float is held as the integer number of quanta, so    *)
(* the real value of v is v / Scale.                                       *)
(***************************************************************************)
EXTENDS Integers, Sequences, FiniteSets, TLC

VARIABLES
    waypoints_arg,   \* the `waypoints` argument handed to DroneTrajectory(...)
    waypoints,       \* self.waypoints of the DroneTrajectory object
    pc,              \* where the object / the run is
    trajectories,    \* the list of trajectories handed to a detector
    conflict_lists,  \* the *conflict_lists handed to merge_conflicts
    conflicts,       \* the conflicts handed to filter_conflicts_by_severity
    call             \* the last call made and what it returned

vars == <<waypoints_arg, waypoints, pc, trajectories, conflict_lists, conflicts, call>>

----------------------------------------------------------------------------
(* Bounds of the model *)

Prec == 8            \* significant bits of a float (53 in the program)
FracBits == 4        \* the smallest positive float is 2^-FracBits
MaxWaypoints == 3    \* longest waypoint collection handed to the constructor
MaxSamples == 4      \* largest num_points handed to sample_trajectory

----------------------------------------------------------------------------
(* Floating-point arithmetic *)

Pow2(n) == IF n <= 0 THEN 1 ELSE 2 ^ n

Scale == Pow2(FracBits)

Abs(x) == IF x < 0 THEN -x ELSE x

\* n/d (d > 0) rounded to the nearest integer, ties to the even one
RoundHalfEven(n, d) ==
    LET q == n \div d
        r == n % d
    IN  IF 2 * r < d THEN q
        ELSE IF 2 * r > d THEN q + 1
        ELSE IF q % 2 = 0 THEN q ELSE q + 1

\* the least k >= 0 with |n/d| < 2^(Prec + k): the quantum of n/d is 2^k
RECURSIVE Quantum(_, _, _)
Quantum(n, d, k) ==
    IF Abs(n) < d * Pow2(Prec + k) THEN k ELSE Quantum(n, d, k + 1)

\* the float nearest to the rational n/d (d > 0)
Fl(n, d) ==
    LET q == Pow2(Quantum(n, d, 0))
    IN  RoundHalfEven(n, d * q) * q

\* the float of a small integer literal
F(i) == Fl(i * Scale, 1)

FAdd(a, b) == Fl(a + b, 1)
FSub(a, b) == Fl(a - b, 1)
FMul(a, b) == Fl(a * b, Scale)
FDiv(a, b) == IF b > 0 THEN Fl(a * Scale, b) ELSE Fl(-(a * Scale), -b)

\* floor of the square root of n >= 0, searched in lo..hi
RECURSIVE ISqrt(_, _, _)
ISqrt(n, lo, hi) ==
    IF lo >= hi THEN lo
    ELSE LET mid == (lo + hi + 1) \div 2
         IN  IF mid <= n \div mid THEN ISqrt(n, mid, hi) ELSE ISqrt(n, lo, mid - 1)

\* the least k >= 0 with r < 2^(Prec + k)
RECURSIVE QuantumOf(_, _)
QuantumOf(r, k) == IF r < Pow2(Prec + k) THEN k ELSE QuantumOf(r, k + 1)

\* np.sqrt: the float nearest to the square root of a >= 0
FSqrt(a) ==
    LET n  == a * Scale
        s  == ISqrt(n, 0, n)
        q  == Pow2(QuantumOf(s, 0))
        r0 == ISqrt(n \div (q * q), 0, s)
        lo == r0 * q
        m2 == (2 * r0 + 1) * (2 * r0 + 1) * q * q    \* (2 * midpoint)^2
    IN  IF 4 * n < m2 THEN lo
        ELSE IF 4 * n > m2 THEN lo + q
        ELSE IF r0 % 2 = 0 THEN lo ELSE lo + q

\* int(x): truncation toward zero
FInt(a) == IF a >= 0 THEN a \div Scale ELSE -((-a) \div Scale)

----------------------------------------------------------------------------
(* Waypoint *)

Waypoint(x, y, z, timestamp) ==
    [x |-> x, y |-> y, z |-> z, timestamp |-> timestamp]

\* Waypoint.distance_to
distance_to(w1, w2) ==
    LET dx == FSub(w1.x, w2.x)
        dy == FSub(w1.y, w2.y)
        dz == FSub(w1.z, w2.z)
    IN  FSqrt(FAdd(FAdd(FMul(dx, dx), FMul(dy, dy)), FMul(dz, dz)))

\* Optional[...]: None is the empty sequence, a value v is <<v>>
None == <<>>
Some(v) == <<v>>

----------------------------------------------------------------------------
(* DroneTrajectory *)

\* insert w into the timestamp-sorted s after every element not later than it
RECURSIVE InsertByTimestamp(_, _)
InsertByTimestamp(s, w) ==
    IF s = <<>> THEN <<w>>
    ELSE IF s[Len(s)].timestamp <= w.timestamp THEN Append(s, w)
    ELSE Append(InsertByTimestamp(SubSeq(s, 1, Len(s) - 1), w), s[Len(s)])

\* sorted(waypoints, key=lambda w: w.timestamp): a stable sort
RECURSIVE SortedByTimestamp(_)
SortedByTimestamp(s) ==
    IF s = <<>> THEN <<>>
    ELSE InsertByTimestamp(SortedByTimestamp(SubSeq(s, 1, Len(s) - 1)), s[Len(s)])

\* _validate_waypoints without its duplicate-timestamp test
ValidateRaisesLengthOnly(wps) == Len(wps) < 2

\* _validate_waypoints: TRUE when it raises ValueError
ValidateRaises(wps) ==
    \/ Len(wps) < 2
    \/ Cardinality({wps[i].timestamp : i \in 1..Len(wps)}) # Len(wps)

\* the linear blend of one coordinate
Lerp(a, b, t) == FAdd(a, FMul(t, FSub(b, a)))

\* interpolate_position's first test, with the bounds taken as excluded
OutOfBoundsInclusive(wps, timestamp) ==
    timestamp <= wps[1].timestamp \/ timestamp >= wps[Len(wps)].timestamp

\* interpolate_position's first test: the timestamp lies outside the trajectory
OutOfBounds(wps, timestamp) ==
    timestamp < wps[1].timestamp \/ timestamp > wps[Len(wps)].timestamp

\* DroneTrajectory.interpolate_position
interpolate_position(wps, timestamp) ==
    IF OutOfBounds(wps, timestamp)
    THEN None
    ELSE LET found == {i \in 1..(Len(wps) - 1) :
                          /\ wps[i].timestamp <= timestamp
                          /\ timestamp <= wps[i + 1].timestamp}
         IN  IF found = {} THEN None
             ELSE LET i  == CHOOSE j \in found : \A k \in found : j <= k
                      w1 == wps[i]
                      w2 == wps[i + 1]
                  IN  IF w2.timestamp = w1.timestamp THEN Some(w1)
                      ELSE LET t == FDiv(FSub(timestamp, w1.timestamp),
                                         FSub(w2.timestamp, w1.timestamp))
                           IN  Some(Waypoint(Lerp(w1.x, w2.x, t),
                                             Lerp(w1.y, w2.y, t),
                                             Lerp(w1.z, w2.z, t),
                                             timestamp))

\* DroneTrajectory.get_trajectory_bounds
get_trajectory_bounds(wps) == <<wps[1].timestamp, wps[Len(wps)].timestamp>>

\* np.linspace(start, stop, num, endpoint=False)
linspace_no_endpoint(start, stop, num) ==
    LET delta == FSub(stop, start)
        step  == IF num > 0 THEN FDiv(delta, F(num)) ELSE 0
    IN  [k \in 1..num |-> FAdd(FMul(F(k - 1), step), start)]

\* np.linspace(start, stop, num) for num >= 0, endpoint included
linspace(start, stop, num) ==
    LET div   == num - 1
        delta == FSub(stop, start)
        step  == IF div > 0 THEN FDiv(delta, F(div)) ELSE 0
        y(i)  == IF div > 0
                 THEN IF step = 0 THEN FMul(FDiv(F(i), F(div)), delta)
                      ELSE FMul(F(i), step)
                 ELSE FMul(F(i), delta)
    IN  [k \in 1..num |->
            IF num > 1 /\ k = num THEN stop ELSE FAdd(y(k - 1), start)]

\* the elements of s that are not None, unwrapped, in order
RECURSIVE Defined(_)
Defined(s) ==
    IF s = <<>> THEN <<>>
    ELSE IF s[1] = None THEN Defined(Tail(s))
    ELSE <<s[1][1]>> \o Defined(Tail(s))

\* DroneTrajectory.sample_trajectory for num_points >= 0
sample_trajectory(wps, num_points) ==
    LET b          == get_trajectory_bounds(wps)
        timestamps == linspace(b[1], b[2], num_points)
    IN  Defined([k \in 1..num_points |-> interpolate_position(wps, timestamps[k])])

----------------------------------------------------------------------------
(* Inputs *)

\* a coordinate (2^Prec + 2) whose difference with 1 is not a float
Big == Pow2(Prec + FracBits) + 2 * Scale

Points == { <<F(0), F(0), F(0)>>, <<F(1), Big, F(2)>>, <<Big, F(1), Big>> }

Times == { F(0), F(1), F(2) }

WaypointPool == { Waypoint(p[1], p[2], p[3], t) : p \in Points, t \in Times }

SeqsUpTo(S, n) == UNION { [1..k -> S] : k \in 0..n }

\* the timestamps interpolate_position is asked for
QueryTimes == Times \cup { -F(1), F(3), F(1) \div 2, F(1) + F(1) \div 4 }

NoCall == [op |-> "none"]

----------------------------------------------------------------------------
(* The life of one DroneTrajectory *)

Init ==
    /\ waypoints_arg \in SeqsUpTo(WaypointPool, MaxWaypoints)
    /\ waypoints = <<>>
    /\ pc = "new"
    /\ trajectories = <<>>
    /\ conflict_lists = <<>>
    /\ conflicts = <<>>
    /\ call = NoCall

\* DroneTrajectory.__init__
Construct ==
    /\ pc = "new"
    /\ waypoints' = SortedByTimestamp(waypoints_arg)
    /\ pc' = IF ValidateRaises(waypoints') THEN "ValueError" ELSE "constructed"
    /\ UNCHANGED <<waypoints_arg, trajectories, conflict_lists, conflicts, call>>

InterpolatePosition(timestamp) ==
    /\ pc = "constructed"
    /\ call' = [op |-> "interpolate_position", timestamp |-> timestamp,
                result |-> interpolate_position(waypoints, timestamp)]
    /\ UNCHANGED <<waypoints_arg, waypoints, pc, trajectories, conflict_lists, conflicts>>

SampleTrajectory(num_points) ==
    /\ pc = "constructed"
    /\ call' = [op |-> "sample_trajectory", num_points |-> num_points,
                raised |-> num_points < 0,
                result |-> IF num_points < 0 THEN <<>>
                           ELSE sample_trajectory(waypoints, num_points)]
    /\ UNCHANGED <<waypoints_arg, waypoints, pc, trajectories, conflict_lists, conflicts>>

Next ==
    \/ Construct
    \/ \E t \in QueryTimes : InterpolatePosition(t)
    \/ \E n \in -1..MaxSamples : SampleTrajectory(n)

Spec == Init /\ [][Next]_vars

----------------------------------------------------------------------------
(* Claims about one DroneTrajectory, checked under Spec *)

StrictlyAscending(wps) ==
    \A i \in 1..(Len(wps) - 1) : wps[i].timestamp < wps[i + 1].timestamp

Range(s) == { s[i] : i \in 1..Len(s) }

\* C1: construction raises the validation error exactly when the collection
\* has fewer than 2 waypoints or two of its waypoints share a timestamp;
\* otherwise it succeeds and the stored waypoints are the given ones in
\* strictly ascending timestamp order, whatever order they were given in.
C1_ConstructionValidates ==
    pc # "new" =>
        LET arg == waypoints_arg
            bad == \/ Len(arg) < 2
                   \/ \E i, j \in 1..Len(arg) :
                          i # j /\ arg[i].timestamp = arg[j].timestamp
        IN  /\ (pc = "ValueError") <=> bad
            /\ (pc = "constructed") <=> ~bad
            /\ pc = "constructed" =>
                   /\ StrictlyAscending(waypoints)
                   /\ Len(waypoints) = Len(arg)
                   /\ Range(waypoints) = Range(arg)

\* a trajectory built from three waypoints given out of order
C1_Witness ==
    /\ pc = "constructed"
    /\ Len(waypoints_arg) = 3
    /\ waypoints_arg[1].timestamp > waypoints_arg[2].timestamp
    /\ waypoints_arg[2].timestamp < waypoints_arg[3].timestamp

\* C5: interpolate_position at the timestamp of an original waypoint (first,
\* interior or last) returns exactly that waypoint: the same x, y, z and
\* timestamp.
C5_WaypointReturnedExactly ==
    call.op = "interpolate_position" =>
        \A i \in 1..Len(waypoints) :
            waypoints[i].timestamp = call.timestamp =>
                call.result = Some(waypoints[i])

\* C6: interpolate_position returns None for every t before the start or
\* after the end of the trajectory, and a position for every t in between,
\* both bounds included.
C6_NoneExactlyOutsideBounds ==
    call.op = "interpolate_position" =>
        LET b == get_trajectory_bounds(waypoints)
        IN  /\ (call.timestamp < b[1] \/ call.timestamp > b[2])
                   => call.result = None
            /\ (b[1] <= call.timestamp /\ call.timestamp <= b[2])
                   => /\ call.result # None
                      /\ call.result[1].timestamp = call.timestamp

\* a query after the end of a three-waypoint trajectory, answered None
C6_Witness ==
    /\ call.op = "interpolate_position"
    /\ Len(waypoints) = 3
    /\ call.timestamp > waypoints[3].timestamp
    /\ call.result = None

NonDecreasing(wps) ==
    \A i \in 1..(Len(wps) - 1) : wps[i].timestamp <= wps[i + 1].timestamp

\* what C7 says of the samples returned for num_points
SamplesSpanBounds(samples, num_points) ==
    LET b == get_trajectory_bounds(waypoints)
    IN  /\ Len(samples) <= num_points
        /\ NonDecreasing(samples)
        /\ samples # <<>>
        /\ samples[1].timestamp = b[1]
        /\ samples[Len(samples)].timestamp = b[2]

\* C7 as stated: for any sample count n (read here as any n >= 1),
\* sample_trajectory(n) returns at most n waypoints, non-decreasing in
\* timestamp, the first at the start bound and the last at the end bound.
C7_AnyCountSpansBounds ==
    (call.op = "sample_trajectory" /\ call.num_points >= 1) =>
        /\ ~call.raised
        /\ SamplesSpanBounds(call.result, call.num_points)

\* C7 amended: the same for every sample count n >= 2.
C7_TwoOrMoreSpanBounds ==
    (call.op = "sample_trajectory" /\ call.num_points >= 2) =>
        /\ ~call.raised
        /\ SamplesSpanBounds(call.result, call.num_points)

\* three or more samples of a three-waypoint trajectory, none dropped
C7_Witness ==
    /\ call.op = "sample_trajectory"
    /\ call.num_points >= 3
    /\ Len(waypoints) = 3
    /\ Len(call.result) = call.num_points

----------------------------------------------------------------------------
(* Conflict and detect_spatial_conflicts *)

Conflict(drone1_id, drone2_id, timestamp, distance, position1, position2, severity, conflict_type) ==
    [drone1_id |-> drone1_id, drone2_id |-> drone2_id,
     timestamp |-> timestamp, distance |-> distance,
     position1 |-> position1, position2 |-> position2,
     severity |-> severity, conflict_type |-> conflict_type]

\* the float written n/d in decimal (0.3 is Lit(3, 10))
Lit(n, d) == Fl(n * Scale, d)

RECURSIVE Concat(_)
Concat(ss) == IF ss = <<>> THEN <<>> ELSE ss[1] \o Concat(Tail(ss))

\* positions[key] = value on a dict held as its items in insertion order
DictSet(items, key, value) ==
    IF \E i \in 1..Len(items) : items[i].key = key
    THEN [i \in 1..Len(items) |->
             IF items[i].key = key THEN [key |-> key, value |-> value]
             ELSE items[i]]
    ELSE Append(items, [key |-> key, value |-> value])

\* the positions dict after the loop over the trajectories
RECURSIVE Positions(_, _)
Positions(trajs, timestamp) ==
    IF trajs = <<>> THEN <<>>
    ELSE LET n     == Len(trajs)
             items == Positions(SubSeq(trajs, 1, n - 1), timestamp)
             pos   == interpolate_position(trajs[n].waypoints, timestamp)
         IN  IF pos # None THEN DictSet(items, trajs[n].drone_id, pos[1])
             ELSE items

\* the separation test with the threshold itself counted as a conflict
TooCloseInclusive(distance, min_separation) == distance <= min_separation

\* the separation test
TooClose(distance, min_separation) == distance < min_separation

\* the severity of a spatial conflict
SpatialSeverity(distance, min_separation) ==
    IF distance < FMul(min_separation, Lit(3, 10)) THEN "high"
    ELSE IF distance < FMul(min_separation, Lit(6, 10)) THEN "medium"
    ELSE "low"

\* the Conflict appended, with position1 stored as position2 too
SpatialConflictOnePosition(drone1_id, drone2_id, timestamp, distance, pos1, pos2, min_separation) ==
    Conflict(drone1_id, drone2_id, timestamp, distance, pos1, pos1,
             SpatialSeverity(distance, min_separation), "spatial")

\* the Conflict appended, with 'temporal' as its type
SpatialConflictAsTemporal(drone1_id, drone2_id, timestamp, distance, pos1, pos2, min_separation) ==
    Conflict(drone1_id, drone2_id, timestamp, distance, pos1, pos2,
             SpatialSeverity(distance, min_separation), "temporal")

\* the Conflict appended for a pair that is too close
SpatialConflict(drone1_id, drone2_id, timestamp, distance, pos1, pos2, min_separation) ==
    Conflict(drone1_id, drone2_id, timestamp, distance, pos1, pos2,
             SpatialSeverity(distance, min_separation), "spatial")

\* the conflicts appended at one time sample: every pair i < j of the dict
ConflictsAt(trajs, timestamp, min_separation) ==
    LET items == Positions(trajs, timestamp)
        n     == Len(items)
        pair(i, j) ==
            LET distance == distance_to(items[i].value, items[j].value)
            IN  IF TooClose(distance, min_separation)
                THEN <<SpatialConflict(items[i].key, items[j].key, timestamp,
                                       distance, items[i].value,
                                       items[j].value, min_separation)>>
                ELSE <<>>
    IN  Concat([i \in 1..n |-> Concat([d \in 1..(n - i) |-> pair(i, i + d)])])

MaxOf(S) == CHOOSE m \in S : \A x \in S : x <= m
MinOf(S) == CHOOSE m \in S : \A x \in S : m <= x

\* max(all_start_times), min(all_end_times)
GlobalStart(trajs) ==
    MaxOf({get_trajectory_bounds(trajs[i].waypoints)[1] : i \in 1..Len(trajs)})
GlobalEnd(trajs) ==
    MinOf({get_trajectory_bounds(trajs[i].waypoints)[2] : i \in 1..Len(trajs)})

\* the no-overlap test with touching windows let through
NoOverlapStrict(global_start, global_end) == global_start > global_end

\* the no-overlap test
NoOverlap(global_start, global_end) == global_start >= global_end

Returns(v) == [raised |-> "", result |-> v]
Raises(e) == [raised |-> e, result |-> <<>>]

\* int((global_end - global_start) / time_resolution)
NumSamplesNoExtra(global_start, global_end, time_resolution) ==
    FInt(FDiv(FSub(global_end, global_start), time_resolution))

\* int((global_end - global_start) / time_resolution) + 1
NumSamples(global_start, global_end, time_resolution) ==
    FInt(FDiv(FSub(global_end, global_start), time_resolution)) + 1

\* what a call leaves: the exception or the list returned, and the
\* timestamps at which positions were evaluated
Sampled(r, time_samples) ==
    [raised |-> r.raised, result |-> r.result, time_samples |-> time_samples]

\* detect_spatial_conflicts
detect_spatial_conflicts(trajs, min_separation, time_resolution) ==
    IF Len(trajs) < 2 THEN Sampled(Returns(<<>>), <<>>)
    ELSE LET global_start == GlobalStart(trajs)
             global_end   == GlobalEnd(trajs)
         IN  IF NoOverlap(global_start, global_end)
             THEN Sampled(Returns(<<>>), <<>>)
             ELSE IF time_resolution = 0
             THEN Sampled(Raises("ZeroDivisionError"), <<>>)
             ELSE LET num_samples ==
                          NumSamples(global_start, global_end, time_resolution)
                  IN  IF num_samples < 0
                      THEN Sampled(Raises("ValueError"), <<>>)
                      ELSE LET time_samples ==
                                   linspace(global_start, global_end, num_samples)
                           IN  Sampled(Returns(Concat(
                                   [k \in 1..num_samples |->
                                       ConflictsAt(trajs, time_samples[k],
                                                   min_separation)])),
                                       time_samples)

----------------------------------------------------------------------------
(* Spatial detection over a fleet *)

MaxFleet == 3        \* longest list of trajectories handed to the detector

\* DroneTrajectory(drone_id, waypoints) for a valid collection
DroneTrajectory(drone_id, wps) ==
    [drone_id |-> drone_id, waypoints |-> SortedByTimestamp(wps)]

P0 == <<F(0), F(0), F(0)>>
P1 == <<F(4), F(0), F(0)>>
P2 == <<F(0), F(3), F(0)>>

At(p, t) == Waypoint(p[1], p[2], p[3], F(t))

\* the trajectories a fleet is taken from
Drones ==
    { DroneTrajectory("d1", <<At(P0, 0), At(P1, 2)>>),
      DroneTrajectory("d2", <<At(P0, 2), At(P1, 0)>>),
      DroneTrajectory("d3", <<At(P2, 0), At(P2, 3)>>),
      DroneTrajectory("d4", <<At(P0, 2), At(P1, 3)>>),
      DroneTrajectory("d5", <<At(P0, 0), At(P2, 1)>>),
      DroneTrajectory("d6", <<At(P2, 3), At(P0, 1), At(P1, 2)>>) }

\* the drones of the test scenarios
Q0 == <<F(0), F(0), F(100)>>
Q1 == <<F(100), F(0), F(100)>>
Q2 == <<F(0), F(100), F(100)>>

Q3 == <<F(0), F(50), F(100)>>
Q4 == <<F(100), -F(50), F(100)>>

DroneA == DroneTrajectory("A", <<At(Q0, 0), At(Q1, 10)>>)
\* the path of A flown five seconds later
DroneB == DroneTrajectory("B", <<At(Q0, 5), At(Q1, 15)>>)
\* leaves the same point at the same time as A, on another path
DroneC == DroneTrajectory("C", <<At(Q0, 0), At(Q2, 10)>>)
\* crosses the path of A
DroneD == DroneTrajectory("D", <<At(Q3, 2), At(Q4, 12)>>)

\* the lists of trajectories with distinct ids, and the crossing scenario
Fleets ==
    { f \in SeqsUpTo(Drones, MaxFleet) :
          \A i, j \in 1..Len(f) : i # j => f[i].drone_id # f[j].drone_id }
    \cup { <<DroneA, DroneD>>, <<DroneD, DroneA>> }

Separations == { F(0), F(4), F(5), F(10), F(100) }
Resolutions == { F(0), (5 * Scale) \div 16, F(1) \div 2, F(1), F(2) }

InitSpatial ==
    /\ trajectories \in Fleets
    /\ pc = "ready"
    /\ waypoints_arg = <<>>
    /\ waypoints = <<>>
    /\ conflict_lists = <<>>
    /\ conflicts = <<>>
    /\ call = NoCall

DetectSpatial(min_separation, time_resolution) ==
    /\ pc = "ready"
    /\ pc' = "done"
    /\ call' = LET r == detect_spatial_conflicts(trajectories, min_separation,
                                                 time_resolution)
               IN  [op |-> "detect_spatial_conflicts",
                    min_separation |-> min_separation,
                    time_resolution |-> time_resolution,
                    raised |-> r.raised, result |-> r.result,
                    time_samples |-> r.time_samples]
    /\ UNCHANGED <<waypoints_arg, waypoints, trajectories, conflict_lists, conflicts>>

NextSpatial ==
    \E m \in Separations, r \in Resolutions : DetectSpatial(m, r)

SpecSpatial == InitSpatial /\ [][NextSpatial]_vars

----------------------------------------------------------------------------
(* Claims about detect_spatial_conflicts, checked under SpecSpatial *)

SpatialCall == call.op = "detect_spatial_conflicts"

\* the time samples of a call that got as far as sampling
TimeSamples ==
    LET gs == GlobalStart(trajectories)
        ge == GlobalEnd(trajectories)
    IN  linspace(gs, ge, NumSamples(gs, ge, call.time_resolution))

\* the severity bands as C8 states them
InBand(severity, distance, m) ==
    \/ severity = "high" /\ distance < FMul(m, Lit(3, 10))
    \/ /\ severity = "medium"
       /\ FMul(m, Lit(3, 10)) <= distance
       /\ distance < FMul(m, Lit(6, 10))
    \/ severity = "low" /\ FMul(m, Lit(6, 10)) <= distance /\ distance < m

\* C8: at every sampled timestamp of the common window, for every unordered
\* pair of drones with a position there, exactly one conflict of type
\* 'spatial' is emitted when their distance is strictly below
\* min_separation and none otherwise; its severity is 'high' below
\* 0.3*min_separation, 'medium' from there to below 0.6*min_separation, and
\* 'low' from there to below min_separation.  Nothing else is emitted.
C8_OneConflictPerClosePair ==
    (/\ SpatialCall
     /\ call.raised = ""
     /\ Len(trajectories) >= 2
     /\ GlobalStart(trajectories) < GlobalEnd(trajectories)) =>
        LET m   == call.min_separation
            res == call.result
            hits(t, a, b) ==
                { k \in 1..Len(res) :
                      /\ res[k].timestamp = t
                      /\ {res[k].drone1_id, res[k].drone2_id} = {a, b} }
        IN  /\ \A k \in 1..Len(TimeSamples) :
                \A i, j \in 1..Len(trajectories) :
                    i < j =>
                        LET t  == TimeSamples[k]
                            a  == trajectories[i]
                            b  == trajectories[j]
                            pa == interpolate_position(a.waypoints, t)
                            pb == interpolate_position(b.waypoints, t)
                            h  == hits(t, a.drone_id, b.drone_id)
                        IN  (pa # None /\ pb # None) =>
                                IF distance_to(pa[1], pb[1]) < m
                                THEN /\ Cardinality(h) = 1
                                     /\ \A c \in h :
                                          /\ res[c].conflict_type = "spatial"
                                          /\ res[c].distance =
                                                 distance_to(pa[1], pb[1])
                                          /\ InBand(res[c].severity,
                                                    res[c].distance, m)
                                ELSE h = {}
            /\ \A c \in 1..Len(res) :
                   /\ res[c].conflict_type = "spatial"
                   /\ \E k \in 1..Len(TimeSamples) :
                          res[c].timestamp = TimeSamples[k]
                   /\ res[c].drone1_id # res[c].drone2_id

\* three drones, conflicts of all three severities, and a pair left out
C8_Witness ==
    /\ SpatialCall
    /\ Len(trajectories) = 3
    /\ \A sev \in {"high", "medium", "low"} :
           \E c \in 1..Len(call.result) : call.result[c].severity = sev
    /\ Len(call.result) < 3 * Len(TimeSamples)

\* C9: when the latest start is not before the earliest end (no window
\* common to all trajectories) detect_spatial_conflicts returns the empty
\* list and does not raise, however close the paths are in space.
C9_NoCommonWindowNoConflicts ==
    (/\ SpatialCall
     /\ trajectories # <<>>
     /\ GlobalStart(trajectories) >= GlobalEnd(trajectories)) =>
        /\ call.raised = ""
        /\ call.result = <<>>

\* two trajectories with disjoint bounds that start at the same point,
\* checked with time_resolution 0
C9_Witness ==
    /\ SpatialCall
    /\ Len(trajectories) = 2
    /\ get_trajectory_bounds(trajectories[1].waypoints)[2]
           < get_trajectory_bounds(trajectories[2].waypoints)[1]
    /\ distance_to(trajectories[1].waypoints[1], trajectories[2].waypoints[1])
           < call.min_separation
    /\ call.time_resolution = 0
    /\ call.raised = ""
    /\ call.result = <<>>

Reverse(s) == [i \in 1..Len(s) |-> s[Len(s) + 1 - i]]

\* c with its two drones exchanged
Swapped(c) ==
    Conflict(c.drone2_id, c.drone1_id, c.timestamp, c.distance,
             c.position2, c.position1, c.severity, c.conflict_type)

\* C10: for two trajectories A and B, detect_spatial_conflicts([B, A]) finds
\* the conflicts of detect_spatial_conflicts([A, B]): the same timestamps,
\* distances, severities and type, with drone1/position1 and
\* drone2/position2 exchanged.
C10_SymmetricInInputOrder ==
    (SpatialCall /\ Len(trajectories) = 2) =>
        LET other == detect_spatial_conflicts(Reverse(trajectories),
                                              call.min_separation,
                                              call.time_resolution)
        IN  /\ other.raised = call.raised
            /\ Len(other.result) = Len(call.result)
            /\ \A k \in 1..Len(call.result) :
                   other.result[k] = Swapped(call.result[k])

\* two trajectories in conflict at positions that differ
C10_Witness ==
    /\ SpatialCall
    /\ Len(trajectories) = 2
    /\ \E k \in 1..Len(call.result) :
           /\ call.result[k].position1 # call.result[k].position2
           /\ call.result[k].severity = "low"
    /\ Len(call.result) >= 2

----------------------------------------------------------------------------
(* merge_conflicts *)

\* round(x, 1), as a number of tenths: Python rounds the exact binary value
\* half to even
Round1(v) == RoundHalfEven(v * 10, Scale)

\* the drone ids used in conflicts, in string order
IdOrder == <<"A", "B", "C">>
Rank(id) == CHOOSE i \in 1..Len(IdOrder) : IdOrder[i] = id

\* tuple(sorted([a, b]))
SortedPair(a, b) == IF Rank(a) <= Rank(b) THEN <<a, b>> ELSE <<b, a>>

\* the dedupe key with the two ids left in stored order
ConflictKeyUnsorted(c) == << <<c.drone1_id, c.drone2_id>>, Round1(c.timestamp) >>

\* the dedupe key of a conflict
ConflictKey(c) ==
    << SortedPair(c.drone1_id, c.drone2_id), Round1(c.timestamp) >>

\* unique_conflicts after the loop over all_conflicts
RECURSIVE UniqueConflicts(_)
UniqueConflicts(all) ==
    IF all = <<>> THEN <<>>
    ELSE LET n    == Len(all)
             init == SubSeq(all, 1, n - 1)
             seen == { ConflictKey(init[i]) : i \in 1..(n - 1) }
         IN  IF ConflictKey(all[n]) \notin seen
             THEN Append(UniqueConflicts(init), all[n])
             ELSE UniqueConflicts(init)

\* the loop with `seen` holding only the key of the previous conflict
RECURSIVE UniqueAdjacent(_)
UniqueAdjacent(all) ==
    IF all = <<>> THEN <<>>
    ELSE LET n    == Len(all)
             init == SubSeq(all, 1, n - 1)
         IN  IF n = 1 \/ ConflictKey(all[n]) # ConflictKey(all[n - 1])
             THEN Append(UniqueAdjacent(init), all[n])
             ELSE UniqueAdjacent(init)

merge_conflicts_adjacent(lists) == UniqueAdjacent(Concat(lists))

\* the loop with unique_conflicts.insert(0, conflict)
merge_conflicts_prepend(lists) ==
    LET u == UniqueConflicts(Concat(lists))
    IN  [i \in 1..Len(u) |-> u[Len(u) + 1 - i]]

\* merge_conflicts(*conflict_lists)
merge_conflicts(lists) == UniqueConflicts(Concat(lists))

----------------------------------------------------------------------------
(* Merging conflict lists *)

MaxConflicts == 3    \* most conflicts handed to merge_conflicts in all

\* a conflict between a and b reported at timestamp t (in sixteenths)
Reported(a, b, t, severity, conflict_type) ==
    LET ts == t * (Scale \div 16)
    IN  Conflict(a, b, ts, F(1), Waypoint(F(0), F(0), F(0), ts),
                 Waypoint(F(1), F(0), F(0), ts), severity, conflict_type)

\* 4/16 and 3/16 both round to 0.2, 2/16 rounds to 0.1
ConflictPool ==
    { Reported("A", "B", 4, "high", "spatial"),
      Reported("B", "A", 4, "low", "temporal"),
      Reported("A", "B", 3, "medium", "temporal"),
      Reported("A", "B", 2, "high", "spatial"),
      Reported("A", "C", 4, "high", "spatial"),
      Reported("A", "B", 4, "low", "spatial") }

\* the ways to cut s into consecutive non-empty lists
RECURSIVE Splits(_)
Splits(s) ==
    IF s = <<>> THEN { <<>> }
    ELSE UNION { { <<SubSeq(s, 1, k)>> \o rest :
                       rest \in Splits(SubSeq(s, k + 1, Len(s))) } :
                 k \in 1..Len(s) }

MergeInputs ==
    LET cut == UNION { Splits(s) : s \in SeqsUpTo(ConflictPool, MaxConflicts) }
    IN  cut \cup { << <<>> >> \o ls : ls \in cut }

InitMerge ==
    /\ conflict_lists \in MergeInputs
    /\ conflicts = <<>>
    /\ pc = "ready"
    /\ waypoints_arg = <<>>
    /\ waypoints = <<>>
    /\ trajectories = <<>>
    /\ call = NoCall

MergeConflicts ==
    /\ pc = "ready"
    /\ pc' = "done"
    /\ call' = [op |-> "merge_conflicts",
                result |-> merge_conflicts(conflict_lists)]
    /\ UNCHANGED <<waypoints_arg, waypoints, trajectories, conflict_lists, conflicts>>

NextMerge == MergeConflicts

SpecMerge == InitMerge /\ [][NextMerge]_vars

----------------------------------------------------------------------------
(* Claims about merge_conflicts, checked under SpecMerge *)

MergeCall == call.op = "merge_conflicts"

\* the key as the claims state it: the unordered pair of ids and the
\* timestamp rounded to one decimal place
KeyOf(c) == << {c.drone1_id, c.drone2_id}, Round1(c.timestamp) >>

KeysOf(s) == { KeyOf(s[i]) : i \in 1..Len(s) }

\* s rearranged by the permutation f of its indices
Permuted(s, f) == [i \in 1..Len(s) |-> s[f[i]]]

\* every result of merging the same conflicts handed over in another order:
\* the argument lists permuted, or the conflicts permuted in one list
Reorderings ==
    { merge_conflicts(Permuted(conflict_lists, f)) :
          f \in Permutations(1..Len(conflict_lists)) }
    \cup
    { merge_conflicts(<<Permuted(Concat(conflict_lists), f)>>) :
          f \in Permutations(1..Len(Concat(conflict_lists))) }

\* C2 as stated: in whatever order the conflicts are handed over, the same
\* set of Conflict records survives.
C2_SameRecordsInAnyOrder ==
    MergeCall => \A r \in Reorderings : Range(r) = Range(call.result)

\* C2 amended: in whatever order the conflicts are handed over, the same
\* number of conflicts survives, with the same set of keys; the surviving
\* records are the same when no two different input conflicts share a key.
C2_SameKeysInAnyOrder ==
    MergeCall =>
        LET all == Concat(conflict_lists)
            distinctKeys ==
                \A i, j \in 1..Len(all) :
                    KeyOf(all[i]) = KeyOf(all[j]) => all[i] = all[j]
        IN  \A r \in Reorderings :
                /\ Len(r) = Len(call.result)
                /\ KeysOf(r) = KeysOf(call.result)
                /\ distinctKeys => Range(r) = Range(call.result)

\* three conflicts, the first and the last sharing a key but not their
\* severity, so that the survivor depends on the order
C2_Witness ==
    /\ MergeCall
    /\ LET all == Concat(conflict_lists)
       IN  /\ Len(all) = 3
           /\ KeyOf(all[1]) = KeyOf(all[3])
           /\ KeyOf(all[1]) # KeyOf(all[2])
           /\ all[1].severity # all[3].severity
    /\ Len(call.result) = 2

\* C3: merging the result of a merge returns the very same list: the same
\* conflicts in the same order.
C3_MergeIdempotent ==
    MergeCall => merge_conflicts(<<call.result>>) = call.result

\* a merge that dropped a conflict and kept two
C3_Witness ==
    /\ MergeCall
    /\ Len(conflict_lists) = 2
    /\ Len(call.result) = 2
    /\ Len(Concat(conflict_lists)) = 3
    /\ call.result[1].timestamp # call.result[2].timestamp

\* the elements of s at the indices in I, in order
RECURSIVE Kept(_, _)
Kept(s, I) ==
    IF s = <<>> THEN <<>>
    ELSE LET n == Len(s)
         IN  IF n \in I THEN Append(Kept(SubSeq(s, 1, n - 1), I), s[n])
             ELSE Kept(SubSeq(s, 1, n - 1), I)

\* C4: the result is the concatenation of the lists with, for each key
\* (unordered pair of ids, timestamp rounded to one decimal), only the first
\* conflict with that key kept, whatever the severity or type of the later
\* ones: no two results share a key and every key of the input is there.
C4_FirstOfEachKeyKept ==
    MergeCall =>
        LET all == Concat(conflict_lists)
            res == call.result
            first == { i \in 1..Len(all) :
                          \A j \in 1..(i - 1) : KeyOf(all[j]) # KeyOf(all[i]) }
        IN  /\ res = Kept(all, first)
            /\ \A i, j \in 1..Len(res) : i # j => KeyOf(res[i]) # KeyOf(res[j])
            /\ KeysOf(res) = KeysOf(all)

\* a later conflict of the same pair stored in the other order, with another
\* severity and type, dropped; a conflict with another key kept
C4_Witness ==
    /\ MergeCall
    /\ LET all == Concat(conflict_lists)
       IN  /\ Len(call.result) = 2
           /\ \E i, j \in 1..Len(all) :
                  /\ i < j
                  /\ all[i].drone1_id = all[j].drone2_id
                  /\ all[i].drone2_id = all[j].drone1_id
                  /\ all[i].severity # all[j].severity
                  /\ all[i].conflict_type # all[j].conflict_type
                  /\ all[i] = call.result[1]

----------------------------------------------------------------------------
(* detect_temporal_conflicts *)

TemporalSamples == 50    \* sample_trajectory(50)

\* abs(wp1.timestamp - wp2.timestamp)
TimeDiff(wp1, wp2) == Abs(FSub(wp1.timestamp, wp2.timestamp))

\* 0 <= time_diff <= time_window
TimeCloseInclusive(time_diff, time_window) ==
    0 <= time_diff /\ time_diff <= time_window

\* 0 < time_diff <= time_window
TimeClose(time_diff, time_window) ==
    0 < time_diff /\ time_diff <= time_window

\* 'high' if time_diff < time_window * 0.3 else 'medium'
TemporalSeverity(time_diff, time_window) ==
    IF time_diff < FMul(time_window, Lit(3, 10)) THEN "high" ELSE "medium"

\* max(wp1.timestamp, wp2.timestamp)
LaterTimestamp(wp1, wp2) ==
    IF wp2.timestamp > wp1.timestamp THEN wp2.timestamp ELSE wp1.timestamp

\* min(wp1.timestamp, wp2.timestamp)
EarlierTimestamp(wp1, wp2) ==
    IF wp2.timestamp < wp1.timestamp THEN wp2.timestamp ELSE wp1.timestamp

\* the Conflict appended for a cross pair that passed both tests
TemporalConflict(drone1_id, drone2_id, wp1, wp2, time_window) ==
    Conflict(drone1_id, drone2_id, EarlierTimestamp(wp1, wp2),
             distance_to(wp1, wp2), wp1, wp2,
             TemporalSeverity(TimeDiff(wp1, wp2), time_window), "temporal")

\* the two inner loops: every wp1 of samples1 against every wp2 of samples2
CrossConflicts(traj1, traj2, time_window, min_separation) ==
    LET samples1 == sample_trajectory(traj1.waypoints, TemporalSamples)
        samples2 == sample_trajectory(traj2.waypoints, TemporalSamples)
        n2       == Len(samples2)
        cross    == [k \in 1..(Len(samples1) * n2) |->
                        <<samples1[((k - 1) \div n2) + 1],
                          samples2[((k - 1) % n2) + 1]>>]
        Hit(p)   == /\ distance_to(p[1], p[2]) < min_separation
                    /\ TimeClose(TimeDiff(p[1], p[2]), time_window)
        hits     == SelectSeq(cross, Hit)
    IN  [k \in 1..Len(hits) |->
            TemporalConflict(traj1.drone_id, traj2.drone_id,
                             hits[k][1], hits[k][2], time_window)]

\* detect_temporal_conflicts
detect_temporal_conflicts(trajs, time_window, min_separation) ==
    LET n == Len(trajs)
    IN  Concat([i \in 1..n |->
            Concat([d \in 1..(n - i) |->
                CrossConflicts(trajs[i], trajs[i + d], time_window,
                               min_separation)])])

----------------------------------------------------------------------------
(* Temporal detection over a fleet *)

TemporalDrones == { DroneA, DroneB, DroneC, DroneD }

\* no fleet, one drone, every ordered pair of drones, and one fleet of three
TemporalFleets ==
    { f \in SeqsUpTo(TemporalDrones, 2) :
          \A i, j \in 1..Len(f) : i # j => f[i].drone_id # f[j].drone_id }
    \cup { <<DroneA, DroneB, DroneC>> }

TimeWindows == { F(0), F(2), F(10) }
TemporalSeparations == { F(10), F(50) }

InitTemporal ==
    /\ trajectories \in TemporalFleets
    /\ pc = "ready"
    /\ waypoints_arg = <<>>
    /\ waypoints = <<>>
    /\ conflict_lists = <<>>
    /\ conflicts = <<>>
    /\ call = NoCall

DetectTemporal(time_window, min_separation) ==
    /\ pc = "ready"
    /\ pc' = "done"
    /\ call' = [op |-> "detect_temporal_conflicts",
                time_window |-> time_window,
                min_separation |-> min_separation,
                raised |-> "",
                result |-> detect_temporal_conflicts(trajectories, time_window,
                                                     min_separation)]
    /\ UNCHANGED <<waypoints_arg, waypoints, trajectories, conflict_lists, conflicts>>

NextTemporal ==
    \E w \in TimeWindows, m \in TemporalSeparations : DetectTemporal(w, m)

SpecTemporal == InitTemporal /\ [][NextTemporal]_vars

----------------------------------------------------------------------------
(* Claims about detect_temporal_conflicts, checked under SpecTemporal *)

TemporalCall == call.op = "detect_temporal_conflicts"

\* the conflicts the rule asks for: one for each pair of trajectories i < j
\* and each cross pair of their samples that is closer than min_separation
\* with a time difference in (0, time_window]
RuleConflicts ==
    LET n == Len(trajectories)
        samples(i) == Range(sample_trajectory(trajectories[i].waypoints,
                                              TemporalSamples))
        dt(p1, p2) == Abs(FSub(p1.timestamp, p2.timestamp))
        of(i, j) ==
            { [drone1_id |-> trajectories[i].drone_id,
               drone2_id |-> trajectories[j].drone_id,
               timestamp |-> MinOf({pp[1].timestamp, pp[2].timestamp}),
               distance |-> distance_to(pp[1], pp[2]),
               position1 |-> pp[1],
               position2 |-> pp[2],
               severity |-> IF dt(pp[1], pp[2])
                                  < FMul(call.time_window, Lit(3, 10))
                            THEN "high" ELSE "medium",
               conflict_type |-> "temporal"] :
              pp \in { qq \in samples(i) \X samples(j) :
                         /\ distance_to(qq[1], qq[2]) < call.min_separation
                         /\ 0 < dt(qq[1], qq[2])
                         /\ dt(qq[1], qq[2]) <= call.time_window } }
    IN  UNION { of(ij[1], ij[2]) :
                  ij \in { kl \in (1..n) \X (1..n) : kl[1] < kl[2] } }

\* C11: for every pair of trajectories and every cross pair of their 50
\* samples, a conflict of type 'temporal' is emitted if and only if the two
\* samples are closer than min_separation and their time difference is above
\* 0 and at most time_window; its timestamp is the earlier sample timestamp,
\* its severity 'high' below 0.3 * time_window and 'medium' otherwise, never
\* 'low'.
C11_TemporalRule ==
    TemporalCall =>
        /\ call.raised = ""
        /\ Range(call.result) = RuleConflicts
        /\ Cardinality(RuleConflicts) = Len(call.result)
        /\ \A k \in 1..Len(call.result) : call.result[k].severity # "low"

\* three trajectories; conflicts of both severities emitted, one of them with
\* the second sample the earlier one, and some cross pairs left out
C11_Witness ==
    /\ TemporalCall
    /\ Len(trajectories) = 3
    /\ Len(call.result) < 3 * TemporalSamples * TemporalSamples
    /\ \E a, b, c \in 1..Len(call.result) :
           /\ call.result[a].severity = "high"
           /\ call.result[b].severity = "medium"
           /\ call.result[c].timestamp = call.result[c].position2.timestamp
           /\ call.result[c].timestamp < call.result[c].position1.timestamp

\* C12: drone A on (0,0,100)->(100,0,100) over [0,10] and drone B on the same
\* path over [5,15]: with time_window = 10 and min_separation = 50 at least
\* one conflict is returned; with time_window = 0 none is, for any
\* trajectories.
C12_ShiftedScenario ==
    TemporalCall =>
        /\ ( /\ trajectories = <<DroneA, DroneB>>
             /\ call.time_window = F(10)
             /\ call.min_separation = F(50) )
           => Len(call.result) >= 1
        /\ call.time_window = F(0) => call.result = <<>>

\* the scenario with time_window = 10: conflicts are returned
C12_Witness ==
    /\ TemporalCall
    /\ trajectories = <<DroneA, DroneB>>
    /\ call.time_window = F(10)
    /\ call.min_separation = F(50)
    /\ call.result # <<>>

----------------------------------------------------------------------------
(* filter_conflicts_by_severity *)

\* severity_order = {'low': 0, 'medium': 1, 'high': 2}
severity_order == [level \in {"low", "medium", "high"} |->
                      CASE level = "low" -> 0
                        [] level = "medium" -> 1
                        [] level = "high" -> 2]

\* severity_order.get(key, 0): an unknown key counts as the lowest level
LevelOrLowest(key) ==
    IF key \in DOMAIN severity_order THEN Some(severity_order[key])
    ELSE Some(0)

\* severity_order[key]: None stands for the KeyError of an unknown key
Level(key) ==
    IF key \in DOMAIN severity_order THEN Some(severity_order[key])
    ELSE None

\* severity_order[c.severity] > min_level
AboveLevel(level, min_level) == level > min_level

\* severity_order[c.severity] >= min_level
AtLeastLevel(level, min_level) == level >= min_level

\* filter_conflicts_by_severity
filter_conflicts_by_severity(cs, min_severity) ==
    IF Level(min_severity) = None THEN Raises("KeyError")
    ELSE LET min_level == Level(min_severity)[1]
             keep(c)   == AtLeastLevel(Level(c.severity)[1], min_level)
         IN  IF \E i \in 1..Len(cs) : Level(cs[i].severity) = None
             THEN Raises("KeyError")
             ELSE Returns(SelectSeq(cs, keep))

\* the levels asked for: the three known ones and unknown ones
MinSeverities == { "low", "medium", "high", "critical", "HIGH", "" }

InitFilter ==
    /\ conflicts \in SeqsUpTo(ConflictPool, MaxConflicts)
    /\ pc = "ready"
    /\ waypoints_arg = <<>>
    /\ waypoints = <<>>
    /\ trajectories = <<>>
    /\ conflict_lists = <<>>
    /\ call = NoCall

FilterConflictsBySeverity(min_severity) ==
    /\ pc = "ready"
    /\ pc' = "done"
    /\ call' = LET r == filter_conflicts_by_severity(conflicts, min_severity)
               IN  [op |-> "filter_conflicts_by_severity",
                    min_severity |-> min_severity,
                    raised |-> r.raised, result |-> r.result]
    /\ UNCHANGED <<waypoints_arg, waypoints, trajectories, conflict_lists, conflicts>>

NextFilter == \E s \in MinSeverities : FilterConflictsBySeverity(s)

SpecFilter == InitFilter /\ [][NextFilter]_vars

----------------------------------------------------------------------------
(* Claims about filter_conflicts_by_severity, checked under SpecFilter *)

FilterCall == call.op = "filter_conflicts_by_severity"

KnownLevels == { "low", "medium", "high" }

SeverityRank(level) ==
    CASE level = "low" -> 0 [] level = "medium" -> 1 [] level = "high" -> 2

\* a is b with some elements left out
RECURSIVE IsSubSeq(_, _)
IsSubSeq(a, b) ==
    IF a = <<>> THEN TRUE
    ELSE IF b = <<>> THEN FALSE
    ELSE IF a[1] = b[1] THEN IsSubSeq(Tail(a), Tail(b))
    ELSE IsSubSeq(a, Tail(b))

\* C13: the result is, in the original order, exactly the conflicts whose
\* severity rank (low 0, medium 1, high 2) is at least the rank of
\* min_severity; so for every list the result for 'high' is part of the
\* result for 'medium', which is part of the result for 'low', which is the
\* list itself.
C13_FilterByRank ==
    (FilterCall /\ call.min_severity \in KnownLevels) =>
        LET wanted == { i \in 1..Len(conflicts) :
                          SeverityRank(conflicts[i].severity)
                              >= SeverityRank(call.min_severity) }
            high   == filter_conflicts_by_severity(conflicts, "high").result
            medium == filter_conflicts_by_severity(conflicts, "medium").result
            low    == filter_conflicts_by_severity(conflicts, "low").result
        IN  /\ call.raised = ""
            /\ call.result = Kept(conflicts, wanted)
            /\ IsSubSeq(high, medium)
            /\ IsSubSeq(medium, low)
            /\ low = conflicts

\* 'medium' asked of a list with a low conflict between a high and a medium
\* one: the two are returned in their order
C13_Witness ==
    /\ FilterCall
    /\ call.min_severity = "medium"
    /\ Len(conflicts) = 3
    /\ conflicts[1].severity = "high"
    /\ conflicts[2].severity = "low"
    /\ conflicts[3].severity = "medium"
    /\ call.result = <<conflicts[1], conflicts[3]>>

\* C14: with a min_severity that is not 'low', 'medium' or 'high' the call
\* fails and returns nothing, for every list of conflicts, the empty one
\* too; an unknown level is never used as a threshold.
C14_UnknownLevelRaises ==
    (FilterCall /\ call.min_severity \notin KnownLevels) =>
        /\ call.raised # ""
        /\ call.result = <<>>

\* an unknown level asked of the empty list: the call fails
C14_Witness ==
    /\ FilterCall
    /\ call.min_severity = "critical"
    /\ conflicts = <<>>
    /\ call.raised = "KeyError"

----------------------------------------------------------------------------
(* to_dict and back *)

\* a dict with string keys: its items as a function of the key, marked as a
\* dict so that it is not the object with the same fields
Dict(items) == [dict |-> items]

\* Waypoint.to_dict
Waypoint_to_dict(self) ==
    Dict([x |-> self.x, y |-> self.y, z |-> self.z,
          timestamp |-> self.timestamp])

\* Waypoint.from_dict
Waypoint_from_dict(data) ==
    Waypoint(data.dict.x, data.dict.y, data.dict.z, data.dict.timestamp)

\* Conflict.to_dict
Conflict_to_dict(self) ==
    Dict([drone1_id |-> self.drone1_id,
          drone2_id |-> self.drone2_id,
          timestamp |-> self.timestamp,
          distance |-> self.distance,
          position1 |-> Waypoint_to_dict(self.position1),
          position2 |-> Waypoint_to_dict(self.position2),
          severity |-> self.severity,
          conflict_type |-> self.conflict_type])

\* Conflict(**data): the generated constructor stores its arguments as given
Conflict_from_keywords(data) ==
    Conflict(data.dict.drone1_id, data.dict.drone2_id, data.dict.timestamp,
             data.dict.distance, data.dict.position1, data.dict.position2,
             data.dict.severity, data.dict.conflict_type)

\* one Waypoint and one Conflict, each turned into a dict and back
InitDict ==
    /\ waypoints_arg \in [1..1 -> WaypointPool]
    /\ conflicts \in [1..1 -> ConflictPool]
    /\ pc = "ready"
    /\ waypoints = <<>>
    /\ trajectories = <<>>
    /\ conflict_lists = <<>>
    /\ call = NoCall

WaypointToDict ==
    /\ pc = "ready"
    /\ pc' = "waypoint_dict"
    /\ call' = [op |-> "Waypoint.to_dict",
                result |-> Waypoint_to_dict(waypoints_arg[1])]
    /\ UNCHANGED <<waypoints_arg, waypoints, trajectories, conflict_lists, conflicts>>

WaypointFromDict ==
    /\ pc = "waypoint_dict"
    /\ pc' = "done"
    /\ call' = [op |-> "Waypoint.from_dict",
                result |-> Waypoint_from_dict(call.result)]
    /\ UNCHANGED <<waypoints_arg, waypoints, trajectories, conflict_lists, conflicts>>

ConflictToDict ==
    /\ pc = "ready"
    /\ pc' = "conflict_dict"
    /\ call' = [op |-> "Conflict.to_dict",
                result |-> Conflict_to_dict(conflicts[1])]
    /\ UNCHANGED <<waypoints_arg, waypoints, trajectories, conflict_lists, conflicts>>

ConflictFromKeywords ==
    /\ pc = "conflict_dict"
    /\ pc' = "done"
    /\ call' = [op |-> "Conflict",
                result |-> Conflict_from_keywords(call.result)]
    /\ UNCHANGED <<waypoints_arg, waypoints, trajectories, conflict_lists, conflicts>>

NextDict ==
    \/ WaypointToDict
    \/ WaypointFromDict
    \/ ConflictToDict
    \/ ConflictFromKeywords

SpecDict == InitDict /\ [][NextDict]_vars

----------------------------------------------------------------------------
(* Claims about the dict representations, checked under SpecDict *)

\* C15: a Waypoint rebuilt from its to_dict() equals the Waypoint in its
\* four fields, and a Conflict rebuilt from its to_dict() equals the Conflict
\* in its eight fields.
C15_RoundTrip ==
    /\ call.op = "Waypoint.from_dict" => call.result = waypoints_arg[1]
    /\ call.op = "Conflict" =>
           /\ call.result.drone1_id = conflicts[1].drone1_id
           /\ call.result.drone2_id = conflicts[1].drone2_id
           /\ call.result.timestamp = conflicts[1].timestamp
           /\ call.result.distance = conflicts[1].distance
           /\ call.result.position1 = conflicts[1].position1
           /\ call.result.position2 = conflicts[1].position2
           /\ call.result.severity = conflicts[1].severity
           /\ call.result.conflict_type = conflicts[1].conflict_type

\* the Waypoint half holds: from_dict(to_dict(w)) is w
C15_WaypointRoundTrip ==
    call.op = "Waypoint.from_dict" => call.result = waypoints_arg[1]

----------------------------------------------------------------------------
(* Claims about the crossing scenario and the sampling of the common window,
   checked under SpecSpatial *)

\* C16: drone A flying (0,0,100)@0 -> (100,0,100)@10 and the drone flying
\* (0,50,100)@2 -> (100,-50,100)@12, with min_separation = 100 and
\* time_resolution = 1: at least one conflict is returned, and every
\* returned conflict is of type 'spatial' with both ids among the two input
\* ids.
C16_CrossingScenario ==
    (/\ SpatialCall
     /\ trajectories \in { <<DroneA, DroneD>>, <<DroneD, DroneA>> }
     /\ call.min_separation = F(100)
     /\ call.time_resolution = F(1)) =>
        /\ call.raised = ""
        /\ Len(call.result) >= 1
        /\ \A k \in 1..Len(call.result) :
               /\ call.result[k].conflict_type = "spatial"
               /\ call.result[k].drone1_id \in {"A", "D"}
               /\ call.result[k].drone2_id \in {"A", "D"}

\* the scenario in the order of the test: a conflict between A and the
\* crossing drone is returned
C16_Witness ==
    /\ SpatialCall
    /\ trajectories = <<DroneA, DroneD>>
    /\ call.min_separation = F(100)
    /\ call.time_resolution = F(1)
    /\ \E k \in 1..Len(call.result) :
           /\ call.result[k].drone1_id = "A"
           /\ call.result[k].drone2_id = "D"
           /\ call.result[k].conflict_type = "spatial"

\* a call with a non-empty common window and a positive time_resolution
WindowCall ==
    /\ SpatialCall
    /\ Len(trajectories) >= 2
    /\ GlobalStart(trajectories) < GlobalEnd(trajectories)
    /\ call.time_resolution > 0

\* the timestamps are evenly spaced from start to end, each to within one
\* unit in the last place of end per rounding made on the way to it
EvenlySpaced(ts, start, end) ==
    LET n   == Len(ts)
        ulp == Pow2(QuantumOf(Abs(end), 0))
    IN  /\ \A k \in 1..(n - 1) : ts[k] < ts[k + 1]
        /\ \A k \in 1..n :
               Abs((n - 1) * (ts[k] - start) - (k - 1) * (end - start))
                   <= (n - 1) * k * ulp

\* C17 as stated: with start < end and time_resolution > 0, positions are
\* evaluated at floor((end - start) / time_resolution) + 1 evenly spaced
\* timestamps, the first being start and the last being end, also when
\* end - start is smaller than time_resolution.
C17_SamplesSpanWindow ==
    WindowCall =>
        LET start == GlobalStart(trajectories)
            end   == GlobalEnd(trajectories)
            ts    == call.time_samples
        IN  /\ call.raised = ""
            /\ Len(ts) = ((end - start) \div call.time_resolution) + 1
            /\ EvenlySpaced(ts, start, end)
            /\ ts[1] = start
            /\ ts[Len(ts)] = end

\* C17 amended: the number of timestamps is
\* int((end - start) / time_resolution) + 1 as the floats compute it, the
\* first is start, they are evenly spaced up to rounding, and the last is
\* end when there are two or more; when end - start is smaller than
\* time_resolution there is one timestamp, start, and end is not sampled.
C17_SamplesFromStart ==
    WindowCall =>
        LET start == GlobalStart(trajectories)
            end   == GlobalEnd(trajectories)
            ts    == call.time_samples
            n     == FInt(FDiv(FSub(end, start), call.time_resolution)) + 1
        IN  /\ call.raised = ""
            /\ Len(ts) = n
            /\ n >= 1
            /\ ts[1] = start
            /\ n >= 2 => (ts[n] = end /\ EvenlySpaced(ts, start, end))
            /\ (end - start < call.time_resolution) <=> (n = 1)
            /\ n = 1 => ts = <<start>>

\* a window shorter than time_resolution: start alone is sampled
C17_Witness ==
    /\ WindowCall
    /\ GlobalEnd(trajectories) - GlobalStart(trajectories)
           < call.time_resolution
    /\ call.time_samples = <<GlobalStart(trajectories)>>

====
